---- MODULE Spec2Model ----
(***************************************************************************)
(* leveldbbench (src/docutil/doc.go, package leveldbbench): the benchmark  *)
(* run of LevelDBBenchCmd.RunE as a state machine.  The main goroutine     *)
(* walks the fixed script of twelve phases; writeData, readSeq and         *)
(* readRandom launch one goroutine per operation behind a buffered channel *)
(* (pool) and a sync.WaitGroup (wg).  Every statement that touches shared  *)
(* state is one step, so that the interleavings of the launching loop with *)
(* the launched goroutines are the ones the Go scheduler can produce.      *)
(*                                                                         *)
(* Scaling.  A byte has ByteBase values, a uint64 has WordBytes bytes      *)
(* (arithmetic modulo WordMod), a SHA-1 digest has DigestSize bytes, and   *)
(* the value sizes and the limits are small.  The backend is the set of    *)
(* keys it holds plus a counter of the operations it has completed (the    *)
(* program never looks at a value it reads back).                          *)
(***************************************************************************)
EXTENDS Integers, Sequences, FiniteSets, Bags, TLC

\* ------------------------------------------------------------------ bounds
\* Largest --small-fill-limit, --large-fill-limit, --read-limit and
\* --degree-of-parallelism a run is started with.
MaxSmallFill == 2
MaxLargeFill == 1
MaxReadLimit == 2
MaxParallel == 2
\* Scaled machine sizes: values of a byte, bytes of a uint64.
ByteBase == 4
WordBytes == 2
\* Period of the scaled pseudo-random byte stream.
RandPeriod == 3
\* --small-value-size and --large-value-size (scaled).
smallValueSize == 1
largeValueSize == 2
\* Largest --key-size and largest value size makeKV is evaluated with on its
\* own (one more than a digest has bytes; the larger of the two value sizes).
MaxKeySize == 4
MaxValueSize == 2

\* ------------------------------------------------------- integers and bytes
RECURSIVE Pow(_, _)
Pow(b, n) == IF n = 0 THEN 1 ELSE b * Pow(b, n - 1)

\* uint64 arithmetic wraps modulo WordMod.
WordMod == Pow(ByteBase, WordBytes)
MaxUint64 == WordMod - 1

\* --key-size: the default is the width of a uint64 (8 bytes).
keySize == WordBytes
\* sha1.Size: a digest is longer than a uint64 (20 bytes against 8).
DigestSize == WordBytes + 1

Byte == 0 .. (ByteBase - 1)

\* make([]byte, n, n)
Zeros(n) == [p \in 1 .. n |-> 0]

\* BigEndianPutUint64 without its least significant byte.
MutBigEndianPutUint64(buf, x) ==
    [p \in 1 .. Len(buf) |->
        IF p < WordBytes THEN (x \div Pow(ByteBase, WordBytes - p)) % ByteBase
        ELSE buf[p]]

\* binary.BigEndian.PutUint64 / binary.LittleEndian.PutUint64: the WordBytes
\* bytes of x, most (least) significant first, over the head of buf.
BigEndianPutUint64(buf, x) ==
    [p \in 1 .. Len(buf) |->
        IF p <= WordBytes THEN (x \div Pow(ByteBase, WordBytes - p)) % ByteBase
        ELSE buf[p]]

LittleEndianPutUint64(buf, x) ==
    [p \in 1 .. Len(buf) |->
        IF p <= WordBytes THEN (x \div Pow(ByteBase, p - 1)) % ByteBase
        ELSE buf[p]]

RECURSIVE Weigh(_, _)
Weigh(buf, p) ==
    IF p > Len(buf) THEN 0 ELSE (2 * p - 1) * buf[p] + Weigh(buf, p + 1)

\* sha1.Sum: a fixed function from byte strings to DigestSize bytes.  The
\* digest itself is the library's; the model keeps that it is deterministic,
\* of fixed length and not the identity.
Sha1Sum(buf) ==
    [j \in 1 .. DigestSize |-> (Weigh(buf, 1) + j * j + Len(buf)) % ByteBase]

\* bytes.Compare(a, b) < 0: the backend's key order.
RECURSIVE KeyLess(_, _)
KeyLess(a, b) ==
    IF a = <<>> THEN b # <<>>
    ELSE IF b = <<>> THEN FALSE
    ELSE IF Head(a) # Head(b) THEN Head(a) < Head(b)
    ELSE KeyLess(Tail(a), Tail(b))

MinKey(S) == CHOOSE k \in S : \A o \in S : o = k \/ KeyLess(k, o)

\* randSrc.Read(tmpValue): n bytes of the stream from position pos on.
RandByte(pos) == (pos * pos + 1) % ByteBase
RandRead(pos, n) == [p \in 1 .. n |-> RandByte((pos + p - 1) % RandPeriod)]

\* A run-time panic (index or slice bounds out of range): makeKV returns
\* nothing and the process dies.
Panic == [panic |-> TRUE, key |-> <<>>, value |-> <<>>]

\* makeKV, lines 474-483: tmpKey for a buffer of size bytes.  PutUint64
\* indexes byte WordBytes of its buffer and panics on a shorter one;
\* hashedKey[0:size] panics when size exceeds the digest's length.
TmpKey(size, seed, sequential) ==
    IF size < WordBytes THEN Panic
    ELSE IF sequential
    THEN [Panic EXCEPT !.panic = FALSE,
             !.key = BigEndianPutUint64(Zeros(size), (MaxUint64 - seed) % WordMod)]
    ELSE IF size > DigestSize THEN Panic
    ELSE [Panic EXCEPT !.panic = FALSE,
             !.key = SubSeq(Sha1Sum(LittleEndianPutUint64(Zeros(size), seed)),
                            1, size)]

\* makeKV, lines 473-495, as a function of --key-size, the position of
\* randSrc and its three arguments: the key and the value it returns.
MakeKV(size, pos, seed, valueSize, sequential) ==
    IF TmpKey(size, seed, sequential).panic THEN Panic
    ELSE [TmpKey(size, seed, sequential) EXCEPT !.value = RandRead(pos, valueSize)]

\* The key makeKV builds for a seed under the run's --key-size.
MakeKey(seed, sequential) == TmpKey(keySize, seed, sequential).key

\* ------------------------------------------------------------- the script
\* Script with the first sequential read moved behind the large fill.
MutScript == <<
    [fn |-> "writeData", desc |-> "small seq fill",       large |-> FALSE, sequential |-> TRUE],
    [fn |-> "writeData", desc |-> "small seq overwrite",  large |-> FALSE, sequential |-> TRUE],
    [fn |-> "writeData", desc |-> "small rand fill",      large |-> FALSE, sequential |-> FALSE],
    [fn |-> "writeData", desc |-> "small rand overwrite", large |-> FALSE, sequential |-> FALSE],
    [fn |-> "writeData", desc |-> "small rand overwrite", large |-> FALSE, sequential |-> FALSE],
    [fn |-> "writeData", desc |-> "small rand overwrite", large |-> FALSE, sequential |-> FALSE],
    [fn |-> "writeData", desc |-> "large rand fill",      large |-> TRUE,  sequential |-> FALSE],
    [fn |-> "readSeq",   desc |-> "sequential read",      large |-> FALSE, sequential |-> FALSE],
    [fn |-> "writeData", desc |-> "large rand overwrite", large |-> TRUE,  sequential |-> FALSE],
    [fn |-> "readSeq",   desc |-> "sequential read",      large |-> FALSE, sequential |-> FALSE],
    [fn |-> "readRandom", desc |-> "random read",         large |-> FALSE, sequential |-> FALSE],
    [fn |-> "runFullCompact", desc |-> "compaction",      large |-> FALSE, sequential |-> FALSE] >>

\* RunE, lines 288-334: the twelve phases in order.
Script == <<
    [fn |-> "writeData", desc |-> "small seq fill",       large |-> FALSE, sequential |-> TRUE],
    [fn |-> "writeData", desc |-> "small seq overwrite",  large |-> FALSE, sequential |-> TRUE],
    [fn |-> "writeData", desc |-> "small rand fill",      large |-> FALSE, sequential |-> FALSE],
    [fn |-> "writeData", desc |-> "small rand overwrite", large |-> FALSE, sequential |-> FALSE],
    [fn |-> "writeData", desc |-> "small rand overwrite", large |-> FALSE, sequential |-> FALSE],
    [fn |-> "writeData", desc |-> "small rand overwrite", large |-> FALSE, sequential |-> FALSE],
    [fn |-> "readSeq",   desc |-> "sequential read",      large |-> FALSE, sequential |-> FALSE],
    [fn |-> "writeData", desc |-> "large rand fill",      large |-> TRUE,  sequential |-> FALSE],
    [fn |-> "writeData", desc |-> "large rand overwrite", large |-> TRUE,  sequential |-> FALSE],
    [fn |-> "readSeq",   desc |-> "sequential read",      large |-> FALSE, sequential |-> FALSE],
    [fn |-> "readRandom", desc |-> "random read",         large |-> FALSE, sequential |-> FALSE],
    [fn |-> "runFullCompact", desc |-> "compaction",      large |-> FALSE, sequential |-> FALSE] >>

NumPhases == Len(Script)

\* ---------------------------------------------------------------- state
VARIABLES
    smallFillLimit, largeFillLimit, readLimit, degreeOfParallelism, \* flags
    knownKeys,        \* map[string][]byte, as a function key -> key
    knownKeysMutex,   \* TRUE while a goroutine holds it
    randSrc,          \* position in the pseudo-random byte stream
    randSrcMutex,     \* TRUE while a goroutine holds it
    db,               \* the keys the backend holds
    dbStats,          \* backend operations completed (what db.Stats reports)
    pc,               \* where the main goroutine is
    phase,            \* index into Script of the phase being run
    trs,              \* the result records appended so far
    stdout,           \* the documents printed to standard output
    i, lim,           \* writeData's loop variable and bound
    rCount,           \* readSeq's / readRandom's touch counter
    pool, wg,         \* tokens in the pool channel, WaitGroup counter
    iter,             \* readSeq's iterator
    rangeLeft,        \* readRandom: entries the range loop has not yet visited
    tasks,            \* the launched goroutines that have not returned
    failedIn,         \* history: phase of the first backend operation error, or 0
    launched,         \* history: operations launched by each phase so far
    puts,             \* history: seeds of the Puts issued in this phase
    keysAtCall,       \* history: the registry's keys when the phase was called
    unit              \* a function evaluated on its own: its inputs and result

cfgVars == <<smallFillLimit, largeFillLimit, readLimit, degreeOfParallelism>>
regVars == <<knownKeys, knownKeysMutex>>
rndVars == <<randSrc, randSrcMutex>>
dbVars == <<db, dbStats>>
mainVars == <<pc, phase, trs, stdout>>
loopVars == <<i, lim, rCount, iter, rangeLeft>>
syncVars == <<pool, wg>>
histVars == <<failedIn, launched, puts, keysAtCall>>

vars == <<cfgVars, regVars, rndVars, dbVars, mainVars, loopVars, syncVars,
          tasks, histVars, unit>>

\* No function is evaluated on its own during a run of RunE.
NoUnit == [fn |-> "none"]

NoIter == [keys |-> {}, cur |-> <<>>, released |-> TRUE, err |-> FALSE]

\* A goroutine: fn is the closure it runs, pc its position, old whether the
\* function that launched it has returned; ph, seed, k, v, r are its locals
\* (reset at wg.Done, after which it uses none of them).
Task(fn, at, key) ==
    [fn |-> fn, pc |-> at, old |-> FALSE, ph |-> phase,
     seed |-> 0, k |-> key, v |-> <<>>, r |-> 0]

Finished(t) == [t EXCEPT !.ph = 0, !.seed = 0, !.k = <<>>, !.v = <<>>, !.r = 0]

Spawn(t) == tasks' = tasks (+) SetToBag({t})
Move(t, u) == tasks' = (tasks (-) SetToBag({t})) (+) SetToBag({u})
Drop(t) == tasks' = tasks (-) SetToBag({t})

\* A backend operation returns an error.
Failed == failedIn' = IF failedIn = 0 THEN phase ELSE failedIn

Running == pc \notin {"ok", "err", "killed"}

\* A database left in _benchmark_db by an earlier run, which OpenFile reopens.
EarlierDb == {MakeKey(0, TRUE)}

Init ==
    /\ smallFillLimit \in 0 .. MaxSmallFill
    /\ largeFillLimit \in 0 .. MaxLargeFill
    /\ readLimit \in 0 .. MaxReadLimit
    /\ degreeOfParallelism \in 0 .. MaxParallel
    /\ knownKeys = <<>>
    /\ knownKeysMutex = FALSE
    /\ randSrc = 0
    /\ randSrcMutex = FALSE
    /\ db \in {{}, EarlierDb}
    /\ dbStats = 0
    /\ pc = "open"
    /\ phase = 1
    /\ trs = <<>>
    /\ stdout = <<>>
    /\ i = 0
    /\ lim = 0
    /\ rCount = 0
    /\ pool = 0
    /\ wg = 0
    /\ iter = NoIter
    /\ rangeLeft = 0
    /\ tasks = EmptyBag
    /\ failedIn = 0
    /\ launched = <<>>
    /\ puts = EmptyBag
    /\ keysAtCall = {}
    /\ unit = NoUnit

\* ------------------------------------------------------- the main goroutine
\* RunE, lines 267-271: knownKeys = make(...); leveldb.OpenFile.
OpenFile ==
    /\ pc = "open"
    /\ pc' \in {"call", "err"}
    /\ knownKeys' = <<>>
    /\ UNCHANGED <<unit, cfgVars, knownKeysMutex, rndVars, dbVars, phase, trs, stdout,
                   loopVars, syncVars, tasks, histVars>>

\* What every call of a phase function starts from.
Enter(first) ==
    /\ pc' = first
    /\ pool' = 0
    /\ wg' = 0
    /\ launched' = Append(launched, 0)
    /\ puts' = EmptyBag
    /\ keysAtCall' = DOMAIN knownKeys

StartIndex(ph) == IF Script[ph].large THEN (smallFillLimit * 2) % WordMod ELSE 0
WriteLimit(ph) == IF Script[ph].large THEN largeFillLimit ELSE smallFillLimit
ValueSize(ph) == IF Script[ph].large THEN largeValueSize ELSE smallValueSize

\* writeData, lines 363-364: the loop bound, and the indices the loop
\* "for ; i < lim; i++" runs through from startIndex.
Lim(ph) == (WriteLimit(ph) + StartIndex(ph)) % WordMod
LoopIndices(ph) == {x \in 0 .. MaxUint64 : StartIndex(ph) <= x /\ x < Lim(ph)}

\* writeData, lines 358-363.
CallWriteData ==
    /\ pc = "call"
    /\ Script[phase].fn = "writeData"
    /\ Enter("w_loop")
    /\ i' = StartIndex(phase)
    /\ lim' = Lim(phase)
    /\ UNCHANGED <<unit, cfgVars, regVars, rndVars, dbVars, phase, trs, stdout,
                   rCount, iter, rangeLeft, tasks, failedIn>>

\* writeData, line 364: the loop condition.
WriteLoop ==
    /\ pc = "w_loop"
    /\ pc' = IF i < lim THEN "w_acq" ELSE "wait"
    /\ UNCHANGED <<unit, cfgVars, regVars, rndVars, dbVars, phase, trs, stdout,
                   loopVars, syncVars, tasks, histVars>>

\* PoolSend with a send that never blocks (a pool without its capacity).
MutPoolSend(at, next) ==
    /\ pc = at
    /\ pool' = pool + 1
    /\ pc' = next
    /\ UNCHANGED <<unit, cfgVars, regVars, rndVars, dbVars, phase, trs, stdout,
                   loopVars, wg, tasks, histVars>>

\* pool <- true (lines 365, 393, 425): blocks while the channel is full.
PoolSend(at, next) ==
    /\ pc = at
    /\ pool < degreeOfParallelism
    /\ pool' = pool + 1
    /\ pc' = next
    /\ UNCHANGED <<unit, cfgVars, regVars, rndVars, dbVars, phase, trs, stdout,
                   loopVars, wg, tasks, histVars>>

\* wg.Add(1); go func() {...}() (lines 366-367, 394-395, 426-427).
Go(at, next, t) ==
    /\ pc = at
    /\ wg' = wg + 1
    /\ Spawn(t)
    /\ launched' = [launched EXCEPT ![phase] = @ + 1]
    /\ pc' = next
    /\ UNCHANGED <<unit, cfgVars, regVars, rndVars, dbVars, phase, trs, stdout,
                   loopVars, pool, failedIn, puts, keysAtCall>>

WriteAcquire == PoolSend("w_acq", "w_go")

WriteGo == Go("w_go", "w_inc", Task("write", "seed", <<>>))

\* writeData, line 364: i = i + 1.
WriteInc ==
    /\ pc = "w_inc"
    /\ i' = (i + 1) % WordMod
    /\ pc' = "w_loop"
    /\ UNCHANGED <<unit, cfgVars, regVars, rndVars, dbVars, phase, trs, stdout,
                   lim, rCount, iter, rangeLeft, syncVars, tasks, histVars>>

\* The goroutines that outlive the call that launched them.  One that has
\* only its receive from the pool left (the pool of a call that has returned
\* is reachable by nothing else) touches no state any more and leaves the
\* model here; any other goes on running, marked old.
Outlive(bag) ==
    BagOfAll(LAMBDA t : [t EXCEPT !.old = TRUE],
             [t \in {u \in BagToSet(bag) : u.pc # "release"} |-> bag[t]])

\* Wait without the barrier: the phase function returns once its loop ends.
MutWait ==
    /\ pc = "wait"
    /\ pc' = "record"
    /\ tasks' = Outlive(tasks)
    /\ UNCHANGED <<unit, cfgVars, regVars, rndVars, dbVars, phase, trs, stdout,
                   loopVars, syncVars, histVars>>

\* wg.Wait() (lines 378, 413, 440) and the return of the phase function.
Wait ==
    /\ pc = "wait"
    /\ wg = 0
    /\ pc' = "record"
    /\ tasks' = Outlive(tasks)
    /\ UNCHANGED <<unit, cfgVars, regVars, rndVars, dbVars, phase, trs, stdout,
                   loopVars, syncVars, histVars>>

OpCount(ph) ==
    CASE Script[ph].fn = "writeData" -> WriteLimit(ph)
      [] Script[ph].fn \in {"readSeq", "readRandom"} -> readLimit
      [] OTHER -> 1

\* NewTestResult without db.Stats(s): the record keeps the zero DBStats.
MutNewTestResult(desc, opCount) ==
    [Description |-> desc, OpCount |-> opCount, Stats |-> 0]

\* NewTestResult, lines 244-259 (the times and the rate are not modelled).
NewTestResult(desc, opCount) ==
    [Description |-> desc, OpCount |-> opCount, Stats |-> dbStats]

\* RunE: trs = append(trs, NewTestResult(...)) after each phase.
Record ==
    /\ pc = "record"
    /\ trs' = Append(trs, NewTestResult(Script[phase].desc, OpCount(phase)))
    /\ phase' = phase + 1
    /\ pc' = IF phase = NumPhases THEN "marshal" ELSE "call"
    /\ UNCHANGED <<unit, cfgVars, regVars, rndVars, dbVars, stdout, loopVars, syncVars,
                   tasks, histVars>>

\* RunE, lines 339-344: json.Marshal, fmt.Println, return; the process ends.
Marshal ==
    /\ pc = "marshal"
    /\ \/ stdout' = Append(stdout, trs) /\ pc' = "ok"
       \/ stdout' = stdout /\ pc' = "err"
    /\ tasks' = EmptyBag
    /\ UNCHANGED <<unit, cfgVars, regVars, rndVars, dbVars, phase, trs, loopVars,
                   syncVars, histVars>>

\* log.Fatal in the main goroutine (lines 354, 410): os.Exit(1).
Fatal ==
    /\ pc = "fatal"
    /\ pc' = "killed"
    /\ tasks' = EmptyBag
    /\ UNCHANGED <<unit, cfgVars, regVars, rndVars, dbVars, phase, trs, stdout,
                   loopVars, syncVars, histVars>>

\* ------------------------------------------------------ writeData's closure
\* line 369: makeKV(i, ...) reads the loop variable the launching loop writes;
\* lines 474-483 build the key.
TaskSeed ==
    /\ Running
    /\ \E t \in BagToSet(tasks) :
        /\ t.fn = "write" /\ t.pc = "seed"
        /\ Move(t, [t EXCEPT !.pc = "klock", !.seed = i,
                             !.k = MakeKey(i, Script[t.ph].sequential)])
    /\ UNCHANGED <<unit, cfgVars, regVars, rndVars, dbVars, mainVars, loopVars,
                   syncVars, histVars>>

\* makeKV, line 484: knownKeysMutex.Lock().
TaskLockKeys ==
    /\ Running
    /\ ~knownKeysMutex
    /\ \E t \in BagToSet(tasks) :
        /\ t.fn = "write" /\ t.pc = "klock"
        /\ Move(t, [t EXCEPT !.pc = "kins"])
    /\ knownKeysMutex' = TRUE
    /\ UNCHANGED <<unit, cfgVars, knownKeys, rndVars, dbVars, mainVars, loopVars,
                   syncVars, histVars>>

\* MapPut that registers an empty slice under the key instead of the key.
MutMapPut(m, key) == [x \in DOMAIN m \cup {key} |-> IF x = key THEN <<>> ELSE m[x]]

\* knownKeys[string(tmpKey)] = tmpKey
MapPut(m, key) == [x \in DOMAIN m \cup {key} |-> IF x = key THEN key ELSE m[x]]

\* makeKV, lines 485-486: the insert and knownKeysMutex.Unlock().
TaskInsert ==
    /\ Running
    /\ \E t \in BagToSet(tasks) :
        /\ t.fn = "write" /\ t.pc = "kins"
        /\ knownKeys' = MapPut(knownKeys, t.k)
        /\ Move(t, [t EXCEPT !.pc = "rlock"])
    /\ knownKeysMutex' = FALSE
    /\ UNCHANGED <<unit, cfgVars, rndVars, dbVars, mainVars, loopVars, syncVars,
                   histVars>>

\* TaskLockRand that does not wait for the lock to be free.
MutTaskLockRand ==
    /\ Running
    /\ \E t \in BagToSet(tasks) :
        /\ t.fn = "write" /\ t.pc = "rlock"
        /\ Move(t, [t EXCEPT !.pc = "rread"])
    /\ randSrcMutex' = TRUE
    /\ UNCHANGED <<unit, cfgVars, regVars, randSrc, dbVars, mainVars, loopVars,
                   syncVars, histVars>>

\* makeKV, line 491: randSrcMutex.Lock().
TaskLockRand ==
    /\ Running
    /\ ~randSrcMutex
    /\ \E t \in BagToSet(tasks) :
        /\ t.fn = "write" /\ t.pc = "rlock"
        /\ Move(t, [t EXCEPT !.pc = "rread"])
    /\ randSrcMutex' = TRUE
    /\ UNCHANGED <<unit, cfgVars, regVars, randSrc, dbVars, mainVars, loopVars,
                   syncVars, histVars>>

\* makeKV, lines 492-494: randSrc.Read(tmpValue), Unlock, return.
TaskDraw ==
    /\ Running
    /\ \E t \in BagToSet(tasks) :
        /\ t.fn = "write" /\ t.pc = "rread"
        /\ Move(t, [t EXCEPT !.pc = "put", !.v = RandRead(randSrc, ValueSize(t.ph))])
        /\ randSrc' = (randSrc + ValueSize(t.ph)) % RandPeriod
    /\ randSrcMutex' = FALSE
    /\ UNCHANGED <<unit, cfgVars, regVars, dbVars, mainVars, loopVars, syncVars,
                   histVars>>

\* writeData, lines 370-373: db.Put(k, v, wo), which may fail.
TaskPut ==
    /\ Running
    /\ \E t \in BagToSet(tasks) :
        /\ t.fn = "write" /\ t.pc = "put"
        /\ puts' = puts (+) SetToBag({t.seed})
        /\ \/ /\ db' = db \cup {t.k}
              /\ dbStats' = dbStats + 1
              /\ Move(t, [t EXCEPT !.pc = "done"])
              /\ UNCHANGED failedIn
           \/ /\ Failed
              /\ Move(t, [t EXCEPT !.pc = "fatal"])
              /\ UNCHANGED dbVars
    /\ UNCHANGED <<unit, cfgVars, regVars, rndVars, mainVars, loopVars, syncVars,
                   launched, keysAtCall>>

\* log.Fatal in a goroutine (line 372): os.Exit(1).
TaskFatal ==
    /\ Running
    /\ \E t \in BagToSet(tasks) : t.pc = "fatal"
    /\ pc' = "killed"
    /\ tasks' = EmptyBag
    /\ UNCHANGED <<unit, cfgVars, regVars, rndVars, dbVars, phase, trs, stdout,
                   loopVars, syncVars, histVars>>

\* wg.Done() (lines 374, 398, 432).  The WaitGroup of a call that has
\* returned is no longer the one the main goroutine waits on.
WgDone(t) ==
    /\ t.pc = "done"
    /\ wg' = IF t.old THEN wg ELSE wg - 1
    /\ Move(t, [Finished(t) EXCEPT !.pc = "release"])

TaskDone ==
    /\ Running
    /\ \E t \in BagToSet(tasks) : WgDone(t)
    /\ UNCHANGED <<unit, cfgVars, regVars, rndVars, dbVars, mainVars, loopVars, pool,
                   histVars>>

\* <-pool (lines 375, 399, 433), after which the goroutine returns.
TaskRelease ==
    /\ Running
    /\ \E t \in BagToSet(tasks) :
        /\ t.pc = "release"
        /\ pool' = IF t.old THEN pool ELSE pool - 1
        /\ Drop(t)
    /\ UNCHANGED <<unit, cfgVars, regVars, rndVars, dbVars, mainVars, loopVars, wg,
                   histVars>>


\* ------------------------------------------------------------------ readSeq
\* readSeq, lines 384-386.
CallReadSeq ==
    /\ pc = "call"
    /\ Script[phase].fn = "readSeq"
    /\ Enter("s_new")
    /\ rCount' = 0
    /\ UNCHANGED <<unit, cfgVars, regVars, rndVars, dbVars, phase, trs, stdout,
                   i, lim, iter, rangeLeft, tasks, failedIn>>

\* line 389: iter := db.NewIterator(nil, nil), a snapshot of the backend
\* positioned before its first entry.
SeqNewIterator ==
    /\ pc = "s_new"
    /\ iter' = [keys |-> db, cur |-> <<>>, released |-> FALSE, err |-> FALSE]
    /\ pc' = "s_next"
    /\ UNCHANGED <<unit, cfgVars, regVars, rndVars, dbVars, phase, trs, stdout,
                   i, lim, rCount, rangeLeft, syncVars, tasks, histVars>>

\* lines 390-392: iter.Next() and, when it returns true, rCount += 1.  Next
\* returns false at the end of the data and when the iterator fails.
SeqNext ==
    /\ pc = "s_next"
    /\ \/ /\ iter.keys # {}
          /\ iter' = [iter EXCEPT !.cur = MinKey(iter.keys),
                                  !.keys = iter.keys \ {MinKey(iter.keys)}]
          /\ rCount' = (rCount + 1) % WordMod
          /\ pc' = "s_acq"
          /\ UNCHANGED failedIn
       \/ /\ iter.keys = {}
          /\ iter' = [iter EXCEPT !.cur = <<>>]
          /\ pc' = "s_rel"
          /\ UNCHANGED <<rCount, failedIn>>
       \/ /\ iter' = [iter EXCEPT !.cur = <<>>, !.err = TRUE]
          /\ Failed
          /\ pc' = "s_rel"
          /\ UNCHANGED rCount
    /\ UNCHANGED <<unit, cfgVars, regVars, rndVars, dbVars, phase, trs, stdout,
                   i, lim, rangeLeft, syncVars, tasks, launched, puts,
                   keysAtCall>>

SeqAcquire == PoolSend("s_acq", "s_go")

\* lines 394-400: the closure is handed the iterator itself.
SeqGo == Go("s_go", "s_chk", Task("touch", "key", iter.cur))

\* lines 402-405: if rCount >= limit { iter.Release(); break benchLoop }.
SeqCheck ==
    /\ pc = "s_chk"
    /\ IF rCount >= readLimit
       THEN iter' = [iter EXCEPT !.released = TRUE, !.cur = <<>>] /\ pc' = "wait"
       ELSE iter' = iter /\ pc' = "s_next"
    /\ UNCHANGED <<unit, cfgVars, regVars, rndVars, dbVars, phase, trs, stdout,
                   i, lim, rCount, rangeLeft, syncVars, tasks, histVars>>

\* lines 407-411: iter.Release(); iter.Error(); log.Fatal on an error, else
\* the outer loop opens the next pass.
SeqRelease ==
    /\ pc = "s_rel"
    /\ iter' = [iter EXCEPT !.released = TRUE]
    /\ pc' = IF iter.err THEN "fatal" ELSE "s_new"
    /\ UNCHANGED <<unit, cfgVars, regVars, rndVars, dbVars, phase, trs, stdout,
                   i, lim, rCount, rangeLeft, syncVars, tasks, histVars>>

\* lines 396-397: _ = i.Key(); _ = i.Value() on the shared iterator.
TaskTouchKey ==
    /\ Running
    /\ \E t \in BagToSet(tasks) :
        /\ t.fn = "touch" /\ t.pc = "key"
        /\ Move(t, [t EXCEPT !.pc = "value"])
    /\ UNCHANGED <<unit, cfgVars, regVars, rndVars, dbVars, mainVars, loopVars,
                   syncVars, histVars>>

TaskTouchValue ==
    /\ Running
    /\ \E t \in BagToSet(tasks) :
        /\ t.fn = "touch" /\ t.pc = "value"
        /\ Move(t, [t EXCEPT !.pc = "done"])
    /\ dbStats' = dbStats + 1
    /\ UNCHANGED <<unit, cfgVars, regVars, rndVars, db, mainVars, loopVars, syncVars,
                   histVars>>

\* --------------------------------------------------------------- readRandom
\* readRandom, lines 418-420.
CallReadRandom ==
    /\ pc = "call"
    /\ Script[phase].fn = "readRandom"
    /\ Enter("r_range")
    /\ rCount' = 0
    /\ UNCHANGED <<unit, cfgVars, regVars, rndVars, dbVars, phase, trs, stdout,
                   i, lim, iter, rangeLeft, tasks, failedIn>>

\* line 424: for _, randKey := range knownKeys starts over the map.  The
\* order of a map range is the runtime's and the key is used for nothing but
\* the Get whose result is dropped, so the loop is the number of entries it
\* has not yet visited.
RandRange ==
    /\ pc = "r_range"
    /\ rangeLeft' = Cardinality(DOMAIN knownKeys)
    /\ pc' = "r_iter"
    /\ UNCHANGED <<unit, cfgVars, regVars, rndVars, dbVars, phase, trs, stdout,
                   i, lim, rCount, iter, syncVars, tasks, histVars>>

\* RandIter that leaves the loops when the range finds no entry.
MutRandIter ==
    /\ pc = "r_iter"
    /\ IF rangeLeft = 0
       THEN pc' = "wait" /\ UNCHANGED rangeLeft
       ELSE rangeLeft' = rangeLeft - 1 /\ pc' = "r_acq"
    /\ UNCHANGED <<unit, cfgVars, regVars, rndVars, dbVars, phase, trs, stdout,
                   i, lim, rCount, iter, syncVars, tasks, histVars>>

\* line 424: the next entry of the map; when none is left the outer for
\* starts the range again.
RandIter ==
    /\ pc = "r_iter"
    /\ IF rangeLeft = 0
       THEN pc' = "r_range" /\ UNCHANGED rangeLeft
       ELSE rangeLeft' = rangeLeft - 1 /\ pc' = "r_acq"
    /\ UNCHANGED <<unit, cfgVars, regVars, rndVars, dbVars, phase, trs, stdout,
                   i, lim, rCount, iter, syncVars, tasks, histVars>>

RandAcquire == PoolSend("r_acq", "r_go")

RandGo == Go("r_go", "r_chk", Task("get", "load", <<>>))

\* lines 435-437: if rCount >= limit { break benchLoop }, reading the counter
\* the closures write.
RandCheck ==
    /\ pc = "r_chk"
    /\ pc' = IF rCount >= readLimit THEN "wait" ELSE "r_iter"
    /\ UNCHANGED <<unit, cfgVars, regVars, rndVars, dbVars, phase, trs, stdout,
                   loopVars, syncVars, tasks, histVars>>

\* line 428: rCount += 1 in the closure, a load and a store with no lock.
TaskCountLoad ==
    /\ Running
    /\ \E t \in BagToSet(tasks) :
        /\ t.fn = "get" /\ t.pc = "load"
        /\ Move(t, [t EXCEPT !.pc = "store", !.r = rCount])
    /\ UNCHANGED <<unit, cfgVars, regVars, rndVars, dbVars, mainVars, loopVars,
                   syncVars, histVars>>

\* lines 428-429: rCount += 1, the store of the incremented counter.
TaskCountStore ==
    /\ Running
    /\ \E t \in BagToSet(tasks) :
        /\ t.fn = "get" /\ t.pc = "store"
        /\ rCount' = (t.r + 1) % WordMod
        /\ Move(t, [t EXCEPT !.pc = "get", !.r = 0])
    /\ UNCHANGED <<unit, cfgVars, regVars, rndVars, dbVars, phase, pc, trs, stdout,
                   i, lim, iter, rangeLeft, syncVars, histVars>>

\* TaskGet of a goroutine that goes on to <-pool without wg.Done().
MutTaskGet ==
    /\ Running
    /\ \E t \in BagToSet(tasks) :
        /\ t.fn = "get" /\ t.pc = "get"
        /\ Move(t, [t EXCEPT !.pc = "release"])
    /\ dbStats' = dbStats + 1
    /\ \/ UNCHANGED failedIn
       \/ Failed
    /\ UNCHANGED <<unit, cfgVars, regVars, rndVars, db, mainVars, loopVars, syncVars,
                   launched, puts, keysAtCall>>

\* line 431: db.Get(randKey, ro); the value and the error are dropped.
TaskGet ==
    /\ Running
    /\ \E t \in BagToSet(tasks) :
        /\ t.fn = "get" /\ t.pc = "get"
        /\ Move(t, [t EXCEPT !.pc = "done"])
    /\ dbStats' = dbStats + 1
    /\ \/ UNCHANGED failedIn
       \/ Failed
    /\ UNCHANGED <<unit, cfgVars, regVars, rndVars, db, mainVars, loopVars, syncVars,
                   launched, puts, keysAtCall>>

\* ------------------------------------------------------------ runFullCompact
\* RunE line 333, runFullCompact lines 352-355: db.CompactRange, log.Fatal
\* when it fails.
RunFullCompact ==
    /\ pc = "call"
    /\ Script[phase].fn = "runFullCompact"
    /\ pool' = 0
    /\ wg' = 0
    /\ puts' = EmptyBag
    /\ keysAtCall' = DOMAIN knownKeys
    /\ \/ /\ dbStats' = dbStats + 1
          /\ launched' = Append(launched, 1)
          /\ pc' = "record"
          /\ UNCHANGED failedIn
       \/ /\ Failed
          /\ launched' = Append(launched, 1)
          /\ pc' = "fatal"
          /\ UNCHANGED dbStats
    /\ UNCHANGED <<unit, cfgVars, regVars, rndVars, db, phase, trs, stdout,
                   loopVars, tasks>>

Next ==
    \/ OpenFile
    \/ CallWriteData
    \/ WriteLoop
    \/ WriteAcquire
    \/ WriteGo
    \/ WriteInc
    \/ Wait
    \/ Record
    \/ Marshal
    \/ Fatal
    \/ TaskSeed
    \/ TaskLockKeys
    \/ TaskInsert
    \/ TaskLockRand
    \/ TaskDraw
    \/ TaskPut
    \/ TaskFatal
    \/ TaskDone
    \/ TaskRelease
    \/ CallReadSeq
    \/ SeqNewIterator
    \/ SeqNext
    \/ SeqAcquire
    \/ SeqGo
    \/ SeqCheck
    \/ SeqRelease
    \/ TaskTouchKey
    \/ TaskTouchValue
    \/ CallReadRandom
    \/ RandRange
    \/ RandIter
    \/ RandAcquire
    \/ RandGo
    \/ RandCheck
    \/ TaskCountLoad
    \/ TaskCountStore
    \/ TaskGet
    \/ RunFullCompact

Spec == Init /\ [][Next]_vars

\* ------------------------------------------------------------- fair runs
\* The Go scheduler: a goroutine that can take a step is eventually run.
\* MainStep is a step of the main goroutine, TaskStep one of a launched
\* goroutine.
MainStep ==
    \/ OpenFile \/ CallWriteData \/ WriteLoop \/ WriteAcquire \/ WriteGo
    \/ WriteInc \/ Wait \/ Record \/ Marshal \/ Fatal
    \/ CallReadSeq \/ SeqNewIterator \/ SeqNext \/ SeqAcquire \/ SeqGo
    \/ SeqCheck \/ SeqRelease
    \/ CallReadRandom \/ RandRange \/ RandIter \/ RandAcquire \/ RandGo
    \/ RandCheck \/ RunFullCompact

TaskStep ==
    \/ TaskSeed \/ TaskLockKeys \/ TaskInsert \/ TaskLockRand \/ TaskDraw
    \/ TaskPut \/ TaskFatal \/ TaskDone \/ TaskRelease
    \/ TaskTouchKey \/ TaskTouchValue
    \/ TaskCountLoad \/ TaskCountStore \/ TaskGet

\* Runs on a fresh backend with one operation per small write phase.
InitLive ==
    /\ Init
    /\ smallFillLimit = 1
    /\ largeFillLimit = 0
    /\ db = {}

FairSpec == InitLive /\ [][Next]_vars /\ WF_vars(MainStep) /\ WF_vars(TaskStep)

\* ------------------------------------------- functions evaluated on their own
\* makeKV for every --key-size, value size, mode and pair of seeds, and the
\* index range of writeData's loop for every pair of fill limits of the
\* machine word, outside a run of RunE (pc = "unit": RunE takes no step).
MakeKVInputs ==
    [fn : {"makeKV"}, done : {FALSE}, out : {<<>>},
     size : 1 .. MaxKeySize, valueSize : 0 .. MaxValueSize,
     sequential : BOOLEAN, seed : 0 .. MaxUint64, seed2 : 0 .. MaxUint64]

InitFn ==
    /\ \/ /\ unit \in MakeKVInputs
          /\ smallFillLimit = 0
          /\ largeFillLimit = 0
       \/ /\ unit = [fn |-> "writeData", done |-> FALSE, out |-> <<>>]
          /\ smallFillLimit \in 0 .. MaxUint64
          /\ largeFillLimit \in 0 .. MaxUint64
    /\ readLimit = 0
    /\ degreeOfParallelism = 1
    /\ knownKeys = <<>>
    /\ knownKeysMutex = FALSE
    /\ randSrc = 0
    /\ randSrcMutex = FALSE
    /\ db = {}
    /\ dbStats = 0
    /\ pc = "unit"
    /\ phase = 1
    /\ trs = <<>>
    /\ stdout = <<>>
    /\ i = 0
    /\ lim = 0
    /\ rCount = 0
    /\ pool = 0
    /\ wg = 0
    /\ iter = NoIter
    /\ rangeLeft = 0
    /\ tasks = EmptyBag
    /\ failedIn = 0
    /\ launched = <<>>
    /\ puts = EmptyBag
    /\ keysAtCall = {}

\* Two calls of makeKV in a row, as two tasks of one phase make them: the
\* second draws its value where the first one's draw ended.
CallMakeKV ==
    /\ unit.fn = "makeKV"
    /\ ~unit.done
    /\ unit' = [unit EXCEPT !.done = TRUE,
                  !.out = << MakeKV(unit.size, randSrc, unit.seed,
                                    unit.valueSize, unit.sequential),
                             MakeKV(unit.size, (randSrc + unit.valueSize) % RandPeriod,
                                    unit.seed2, unit.valueSize, unit.sequential) >>]
    /\ UNCHANGED <<cfgVars, regVars, rndVars, dbVars, mainVars, loopVars,
                   syncVars, tasks, histVars>>

\* The script's first small and first large write phase.
FirstSmall ==
    CHOOSE ph \in 1 .. NumPhases :
        /\ Script[ph].fn = "writeData" /\ ~Script[ph].large
        /\ \A q \in 1 .. (ph - 1) : Script[q].fn # "writeData" \/ Script[q].large
FirstLarge ==
    CHOOSE ph \in 1 .. NumPhases :
        /\ Script[ph].fn = "writeData" /\ Script[ph].large
        /\ \A q \in 1 .. (ph - 1) : ~Script[q].large

\* The loops of a small and of a large write phase (RunE, lines 288-316:
\* writeData(db, 0, smallFillLimit, ...) and
\* writeData(db, smallFillLimit*2, largeFillLimit, ...)).
CallLoops ==
    /\ unit.fn = "writeData"
    /\ ~unit.done
    /\ unit' = [unit EXCEPT !.done = TRUE,
                  !.out = [small |-> LoopIndices(FirstSmall),
                           large |-> LoopIndices(FirstLarge)]]
    /\ UNCHANGED <<cfgVars, regVars, rndVars, dbVars, mainVars, loopVars,
                   syncVars, tasks, histVars>>

NextFn ==
    \/ CallMakeKV
    \/ CallLoops

SpecFn == InitFn /\ [][NextFn]_vars

\* =================================================================== claims
Current == {t \in BagToSet(tasks) : ~t.old}
NumCurrent == BagCardinality([t \in Current |-> tasks[t]])

\* A goroutine whose backend operation (Put, Key/Value touch, Get) has not
\* completed yet.
Pending(t) == t.pc \notin {"done", "release"}

RECURSIVE SumTo(_, _)
SumTo(s, n) == IF n = 0 THEN 0 ELSE s[n] + SumTo(s, n - 1)

Executor(ph) == ph \in 1 .. NumPhases /\ Script[ph].fn \in {"writeData", "readSeq", "readRandom"}

\* C1: with an admission limit degreeOfParallelism >= 1, in every reachable
\* state of every executor phase the operations that hold an admission slot
\* (tokens in the pool) number at most degreeOfParallelism, and every
\* goroutine the phase has launched and that has not released holds one of
\* those slots: no body runs without a slot acquired before it.
C1_AdmissionBound ==
    degreeOfParallelism >= 1 =>
        /\ pool <= degreeOfParallelism
        /\ NumCurrent <= pool

\* C1 witness: the pool is saturated with two operations in flight while the
\* launching loop of the random reader waits for a slot.
C1_Witness ==
    /\ degreeOfParallelism = 2
    /\ pc = "r_acq"
    /\ pool = 2
    /\ NumCurrent = 2

\* C2: when writeData, readSeq or readRandom has returned to the phase runner
\* (the barrier wg.Wait has been passed), no operation it launched is still
\* pending or running: each has finished its backend work.
C2_BarrierComplete ==
    (pc = "record" /\ Executor(phase)) =>
        /\ \A t \in BagToSet(tasks) : ~Pending(t)
        /\ wg = 0

\* C2 witness: a phase that launched two operations with two slots has
\* returned from its barrier.
C2_Witness ==
    /\ pc = "record"
    /\ Executor(phase)
    /\ degreeOfParallelism = 2
    /\ launched[phase] >= 2

\* C3: phases never overlap.  No goroutine of an earlier phase has backend
\* work left once its phase function has returned, no operation of a phase is
\* launched before the record of the phase before it is taken, and the
\* statistics snapshot in the record of phase k counts exactly the backend
\* operations of phases 1..k: all of phase k's, none of phase k+1's.
C3_PhasesDisjoint ==
    /\ \A t \in BagToSet(tasks) : t.old => ~Pending(t)
    /\ Len(trs) = phase - 1
    /\ Len(launched) \in {phase - 1, phase}
    /\ \A k \in 1 .. Len(trs) : trs[k].Stats = SumTo(launched, k)

\* C3 witness: the record of a phase that ran operations has been taken and
\* a later phase has operations in flight.
C3_Witness ==
    /\ Len(trs) >= 7
    /\ trs[7].Stats > trs[6].Stats
    /\ trs[6].Stats > 0
    /\ NumCurrent >= 1

WritePhase(ph) == ph \in 1 .. NumPhases /\ Script[ph].fn = "writeData"

\* The logical indices [s, s+N) of a write phase.
IndexRange(ph) == {x \in 0 .. MaxUint64 :
                     /\ x >= StartIndex(ph)
                     /\ x < StartIndex(ph) + WriteLimit(ph)}

\* The phases that repeat the write phase before them.
OverwritePhases == {ph \in 2 .. NumPhases :
                      /\ WritePhase(ph) /\ WritePhase(ph - 1)
                      /\ Script[ph].large = Script[ph - 1].large
                      /\ Script[ph].sequential = Script[ph - 1].sequential}

\* C4 (as claimed): a write phase writeData(s, N, mode) that has returned has
\* issued a Put for every logical index in [s, s+N) exactly once and for no
\* other index, and an overwrite phase has added no key to the registry.
C4_WritesExactRange ==
    (pc = "record" /\ WritePhase(phase)) =>
        /\ \A x \in 0 .. MaxUint64 :
              CopiesIn(x, puts) = IF x \in IndexRange(phase) THEN 1 ELSE 0
        /\ phase \in OverwritePhases => DOMAIN knownKeys = keysAtCall

\* C5 (as claimed): one readRandom call launches at most readLimit Gets, and
\* it launches none once the touch count has reached readLimit.
C5_RandomReadBound ==
    /\ \A ph \in 1 .. Len(launched) :
          Script[ph].fn = "readRandom" => launched[ph] <= readLimit
    /\ pc = "r_go" => rCount < readLimit

\* C6 (as claimed): over an error-free backend readSeq dispatches at most
\* readLimit touches and has dispatched exactly readLimit when it returns.
C6_SeqReadBound ==
    failedIn = 0 =>
        /\ \A ph \in 1 .. Len(launched) :
              Script[ph].fn = "readSeq" => launched[ph] <= readLimit
        /\ (pc = "record" /\ Script[phase].fn = "readSeq") =>
              /\ rCount = readLimit
              /\ launched[phase] = readLimit

\* C7 (as claimed): after the first backend operation error (Put, Get,
\* iterator, CompactRange) no further phase starts, no further result record
\* is appended and nothing is written to standard output.
C7_AbortOnError ==
    failedIn # 0 =>
        /\ phase = failedIn
        /\ Len(trs) = failedIn - 1
        /\ stdout = <<>>

\* The order of the phases as the claim lists them.
ClaimedOrder == <<"small seq fill", "small seq overwrite", "small rand fill",
                  "small rand overwrite", "small rand overwrite",
                  "small rand overwrite", "sequential read", "large rand fill",
                  "large rand overwrite", "sequential read", "random read",
                  "compaction">>

\* C8: in a run without backend errors the result records so far are, one per
\* completed phase, the phases of the claimed order; the phase in progress is
\* the next of that order; and standard output holds nothing until the
\* twelfth record is appended, then exactly one document, the twelve records.
C8_ScriptOrder ==
    failedIn = 0 =>
        /\ Len(trs) <= 12
        /\ Len(trs) = phase - 1
        /\ \A k \in 1 .. Len(trs) : trs[k].Description = ClaimedOrder[k]
        /\ phase <= 12 => Script[phase].desc = ClaimedOrder[phase]
        /\ stdout # <<>> => (stdout = <<trs>> /\ Len(trs) = 12 /\ pc = "ok")
        /\ pc = "ok" => stdout = <<trs>>

\* C8 witness: a run that wrote, read and compacted has returned and printed
\* its twelve records.
C8_Witness ==
    /\ pc = "ok"
    /\ failedIn = 0
    /\ stdout = <<trs>>
    /\ Len(trs) = 12
    /\ smallFillLimit = 2
    /\ largeFillLimit = 1

\* C9 (as claimed): after the sequential-mode fill of N indices on the empty
\* registry the registry holds exactly N entries.
C9_SeqFillRegistry ==
    (phase = 1 /\ pc = "record") => Cardinality(DOMAIN knownKeys) = smallFillLimit

\* C10: every registry entry maps a key to itself; the registry holds every
\* key it held when the current phase was called and the key of every Put the
\* phase has issued (it loses no entry); and during a write phase of N
\* operations it has grown by at most N since the phase was called.
C10_RegistryGrows ==
    /\ \A key \in DOMAIN knownKeys : knownKeys[key] = key
    /\ keysAtCall \subseteq DOMAIN knownKeys
    /\ (WritePhase(phase) /\ Len(launched) = phase) =>
          /\ \A x \in BagToSet(puts) :
                MakeKey(x, Script[phase].sequential) \in DOMAIN knownKeys
          /\ Cardinality(DOMAIN knownKeys)
                <= Cardinality(keysAtCall) + WriteLimit(phase)

\* C10 witness: a write phase of two operations has returned with the
\* registry two entries larger than when it was called.
C10_Witness ==
    /\ pc = "record"
    /\ WritePhase(phase)
    /\ WriteLimit(phase) = 2
    /\ keysAtCall # {}
    /\ Cardinality(DOMAIN knownKeys) = Cardinality(keysAtCall) + 2

\* ---------------------------------------------------------------- makeKV
MakeKVDone == unit.fn = "makeKV" /\ unit.done

\* C11: for every non-zero --key-size, every value size, every index and
\* both modes, makeKV completes without a run-time error and returns a key
\* of exactly --key-size bytes and a value of exactly valueSize bytes.
C11_MakeKVTotal ==
    MakeKVDone =>
        \A n \in 1 .. 2 :
            /\ ~unit.out[n].panic
            /\ Len(unit.out[n].key) = unit.size
            /\ Len(unit.out[n].value) = unit.valueSize

\* C12: in sequential mode, with a key at least as wide as the index, two
\* calls of makeKV return the same key exactly when their indices are equal.
C12_SeqInjective ==
    (MakeKVDone /\ unit.sequential /\ unit.size >= WordBytes) =>
        /\ ~unit.out[1].panic /\ ~unit.out[2].panic
        /\ (unit.out[1].key = unit.out[2].key) <=> (unit.seed = unit.seed2)

\* Two indices that differ in their least significant byte only got two
\* different keys of --key-size bytes, under the default --key-size.
C12_Witness ==
    /\ MakeKVDone /\ unit.sequential /\ unit.size = WordBytes
    /\ unit.seed2 = unit.seed + 1
    /\ unit.seed \div ByteBase = unit.seed2 \div ByteBase
    /\ unit.out[1].key # unit.out[2].key
    /\ Len(unit.out[1].key) = unit.size

\* ------------------------------------------------------------ termination
\* C13: with a non-empty registry, a backend that returns no error and
\* degreeOfParallelism >= 1, a call of readRandom eventually returns (its
\* barrier is passed and the phase's record is about to be taken), for every
\* read limit.
C13_RandomReadReturns ==
    (pc = "r_range" /\ DOMAIN knownKeys # {} /\ degreeOfParallelism >= 1
        /\ failedIn = 0)
    ~> (failedIn # 0 \/ (pc = "record" /\ Script[phase].fn = "readRandom"))

\* readRandom has returned from a run with more than one read and more than
\* one slot, over a non-empty registry and without a backend error.
C13_Witness ==
    /\ pc = "record" /\ Script[phase].fn = "readRandom"
    /\ DOMAIN knownKeys # {} /\ failedIn = 0
    /\ readLimit = MaxReadLimit /\ degreeOfParallelism = MaxParallel
    /\ launched[phase] > readLimit

RandomPhase == CHOOSE ph \in 1 .. NumPhases : Script[ph].fn = "readRandom"

\* C14: when the random-read phase is reached with an empty registry and a
\* read limit above zero, readRandom never returns and never issues a Get:
\* the run stays in the range loops of that phase, launches nothing, starts
\* no later phase and prints nothing.
C14_EmptyRegistrySpins ==
    (Len(trs) >= RandomPhase - 1 /\ DOMAIN knownKeys = {} /\ readLimit > 0) =>
        /\ phase = RandomPhase
        /\ Len(trs) = RandomPhase - 1
        /\ pc \in {"call", "r_range", "r_iter"}
        /\ Len(launched) >= RandomPhase => launched[RandomPhase] = 0
        /\ \A t \in BagToSet(tasks) : t.fn # "get"
        /\ stdout = <<>>

\* readRandom has found the range over the empty registry exhausted, on a
\* backend that holds data and with slots to launch into.
C14_Witness ==
    /\ phase = RandomPhase /\ pc = "r_iter" /\ rangeLeft = 0
    /\ DOMAIN knownKeys = {} /\ readLimit > 0
    /\ degreeOfParallelism >= 1 /\ db # {}
    /\ Len(launched) = RandomPhase

\* C15: for every writeLimit and every degreeOfParallelism the flag can take
\* (0 included), on a backend that returns no error, a call of writeData
\* eventually passes its barrier and returns.  It can return only if its
\* launching loop is never stopped for good: whenever the loop waits at
\* pool <- true, the send can proceed or some goroutine can still take a step.
C15_WriteReturns ==
    (pc = "w_acq" /\ failedIn = 0) => ENABLED (WriteAcquire \/ TaskStep)

\* -------------------------------------------------------------- the locks
\* Goroutines inside makeKV's registry insert (between Lock and Unlock of
\* knownKeysMutex) and inside its draw (between Lock and Unlock of
\* randSrcMutex); readRandom's range statement is iterating the registry.
Inserting == {t \in BagToSet(tasks) : t.fn = "write" /\ t.pc = "kins"}
Drawing == {t \in BagToSet(tasks) : t.fn = "write" /\ t.pc = "rread"}
Ranging == pc \in {"r_iter", "r_acq", "r_go", "r_chk"}

\* C16: every access to the registry, the insert of makeKV as well as the
\* iteration of readRandom, is made while the registry's lock is held, so
\* that no read of the registry overlaps a write of it.
C16_RegistryUnderLock ==
    /\ Inserting # {} => knownKeysMutex
    /\ Ranging => knownKeysMutex
    /\ ~(Ranging /\ Inserting # {})

HowMany(S) == BagCardinality([t \in S |-> tasks[t]])

\* C17: draws from randSrc never interleave.  At most one goroutine is
\* inside randSrc.Read, and it is the holder of randSrcMutex; the value a
\* goroutine carries to its Put is one unbroken stretch of valueSize bytes of
\* the stream; and the goroutine that holds the registry's lock is never the
\* one that holds the random source's lock (while the process lives).
C17_DrawsSerialised ==
    Running =>
        /\ HowMany(Drawing) = (IF randSrcMutex THEN 1 ELSE 0)
        /\ HowMany(Inserting) = (IF knownKeysMutex THEN 1 ELSE 0)
        /\ Drawing \cap Inserting = {}
        /\ \A t \in BagToSet(tasks) :
               (t.fn = "write" /\ t.pc = "put") =>
                   \E pos \in 0 .. (RandPeriod - 1) :
                       t.v = RandRead(pos, ValueSize(t.ph))

\* One goroutine is inside the draw while a second waits for randSrcMutex,
\* and one that drew earlier is about to Put its value.
C17_Witness ==
    /\ randSrcMutex
    /\ \E t \in Drawing : \E u \in BagToSet(tasks) :
           u.fn = "write" /\ u.pc = "rlock" /\ ~u.old /\ ~t.old
    /\ randSrc # 0

\* ------------------------------------------------------- the shared iterator
\* C18: a touch launched by readSeq reads the key and the value of the entry
\* the iterator stood on when the touch was dispatched: from the dispatch to
\* the end of the touch's Key and Value reads the iterator is neither
\* advanced nor released.
C18_TouchSeesDispatched ==
    \A t \in BagToSet(tasks) :
        (t.fn = "touch" /\ t.pc \in {"key", "value"}) =>
            /\ ~iter.released
            /\ iter.cur = t.k

\* ---------------------------------------------------------------- the report
\* C19: in the report of a completed run, the OpCount of every phase's
\* record is the number of backend operations the phase launched
\* (writeLimit Puts, readLimit touches, readLimit Gets, one compaction).
C19_OpCountIsLaunched ==
    pc = "ok" =>
        \A ph \in 1 .. NumPhases :
            stdout[1][ph].OpCount = launched[ph]

\* ------------------------------------------------------------ index ranges
\* C20: for every smallFillLimit and largeFillLimit of the machine word
\* (arithmetic modulo WordMod), the indices a large write phase runs through
\* (from 2 * smallFillLimit on) are disjoint from the indices
\* [0, smallFillLimit) of a small write phase, and a large write phase
\* performs exactly largeFillLimit writes.
C20_LargeRangeDisjoint ==
    (unit.fn = "writeData" /\ unit.done) =>
        /\ unit.out.large \cap unit.out.small = {}
        /\ Cardinality(unit.out.large) = largeFillLimit

====
